---------------------------- MODULE Spec2Model ----------------------------
(***************************************************************************)
(* A model of the ctxtrace package: trace identifiers, their propagation   *)
(* through context.Context values, and the HTTP boundary adapters.         *)
(*                                                                         *)
(* The repository holds three revisions of the package:                    *)
(*   "r1"  src/trace.go lines 1-110    (ContextWithTraceID, isValidTraceID,*)
(*                                      TraceIDFromRequest, SetTraceHeader)*)
(*   "r2"  src/trace.go lines 112-220  (WithTraceID, Handler, Transport)   *)
(*   "r3"  src/unnamed/part_002        (as r2; WithTraceID replaces an     *)
(*                                      empty id, WithTestingTraceID does  *)
(*                                      not prefix twice)                  *)
(* A program links exactly one of them: the variable rev says which.       *)
(*                                                                         *)
(* Strings are TLA+ strings; Go's len, slicing and + are Len, SubSeq, \o.  *)
(* Contexts, requests and header maps are heap objects: a context is a     *)
(* node pointing at its parent, a request points at its header map and its *)
(* context, so that sharing and in-place mutation are visible.             *)
(***************************************************************************)
EXTENDS Integers, Sequences, FiniteSets, TLC

VARIABLES
    rev,     \* the revision of the package the program links
    gen,     \* how many identifiers uuid.New has produced so far
    ctxs,    \* heap of context nodes; index 0 is context.Background()
    hdrs,    \* heap of http.Header maps
    reqs,    \* heap of http.Request objects
    served,  \* calls the inbound middleware made to the wrapped handler
    sent,    \* calls the outbound transport made to the wrapped sender
    last,    \* the most recent call and what it returned
    chains   \* the call chains in flight: the position and locals of each

vars == <<rev, gen, ctxs, hdrs, reqs, served, sent, last, chains>>

---------------------------------------------------------------------------
(* Bounds of the model.                                                    *)

MaxGen == 3      \* identifiers uuid.New may produce in one behaviour
MaxCtx == 2      \* attachments to contexts in one behaviour
MaxCalls == 3    \* requests built, served and sent in one behaviour
MaxChains == 2   \* call chains in flight at once
MaxHops == 3     \* requests services receive along one chain of calls

---------------------------------------------------------------------------
(* Package constants.                                                      *)

TraceIDHeader == "X-Trace-Id"
TraceIDCtx == "trace_id"
testingTraceIDPrefix == "testing-"

\* The private context key type, and the key zapctx stores its logger under.
traceIDContextKey == "ctxtrace.traceIDContextKey{}"
loggerKey == "zapctx.loggerKey{}"
otherKey == "caller.key{}"

Revisions == {"r1", "r2", "r3"}

---------------------------------------------------------------------------
(* Strings.                                                                *)

\* The byte of s at Go index i (0-based), as a one-character string.
At(s, i) == SubSeq(s, i + 1, i + 1)

\* s[i:]
From(s, i) == SubSeq(s, i + 1, Len(s))

HasPrefix(s, prefix) ==
    /\ Len(s) >= Len(prefix)
    /\ SubSeq(s, 1, Len(prefix)) = prefix

HexChars == {"0", "1", "2", "3", "4", "5", "6", "7", "8", "9",
             "a", "b", "c", "d", "e", "f", "A", "B", "C", "D", "E", "F"}

\* uuid.xtob: both characters are hexadecimal digits.
xtob(x1, x2) == x1 \in HexChars /\ x2 \in HexChars

ToLowerURN(s) ==
    LET low(c) == CASE c = "U" -> "u" [] c = "R" -> "r" [] c = "N" -> "n"
                    [] c = "I" -> "i" [] c = "D" -> "d" [] OTHER -> c
    IN  low(At(s, 0)) \o low(At(s, 1)) \o low(At(s, 2)) \o low(At(s, 3))
        \o low(At(s, 4)) \o low(At(s, 5)) \o low(At(s, 6)) \o low(At(s, 7))
        \o low(At(s, 8))

\* The 36-byte form xxxxxxxx-xxxx-xxxx-xxxx-xxxxxxxxxxxx (bytes past 36 unread).
uuidBody(s) ==
    /\ At(s, 8) = "-" /\ At(s, 13) = "-" /\ At(s, 18) = "-" /\ At(s, 23) = "-"
    /\ \A x \in {0, 2, 4, 6, 9, 11, 14, 16, 19, 21, 24, 26, 28, 30, 32, 34} :
           xtob(At(s, x), At(s, x + 1))

\* uuid.Parse(s) returns no error.
uuidParseOK(s) ==
    CASE Len(s) = 36 -> uuidBody(s)
      [] Len(s) = 45 -> ToLowerURN(s) = "urn:uuid:" /\ uuidBody(From(s, 9))
      [] Len(s) = 38 -> uuidBody(From(s, 1))
      [] Len(s) = 32 -> \A i \in 0..15 : xtob(At(s, 2 * i), At(s, 2 * i + 1))
      [] OTHER -> FALSE

---------------------------------------------------------------------------
(* Identifier policy.                                                      *)

Digits == <<"1", "2", "3", "4", "5", "6", "7", "8", "9", "a", "b", "c">>

\* uuid.New().String() for the (n+1)-th identifier of the behaviour: version
\* 4, variant 10, distinct from every identifier produced before it.
NewTraceID(n) == "6ba7b810-9dad-41d1-80b4-00c04fd430c" \o Digits[n + 1]

IsTestingTraceID(id) == HasPrefix(id, testingTraceIDPrefix)

\* isValidTraceID, were it not to accept testing identifiers.
isValidTraceID_NoTesting(id) ==
    IF id = "" THEN FALSE ELSE uuidParseOK(id)

\* r1: isValidTraceID
isValidTraceID(id) ==
    IF id = "" THEN FALSE
    ELSE IF IsTestingTraceID(id) THEN TRUE
    ELSE uuidParseOK(id)

---------------------------------------------------------------------------
(* Context propagation.  A context is an index into ctxs; 0 is             *)
(* context.Background(), which holds no value.                             *)

Ctxs(h) == 0..Len(h)

\* context.WithValue(c, key, val): a new node whose parent is c; no existing
\* node changes.
WithValue(h, c, key, val) ==
    Append(h, [parent |-> c, key |-> key, val |-> val])

\* ctx.Value(key): the value of the nearest node holding key, up the chain of
\* parents; <<>> stands for nil.
RECURSIVE Value(_, _, _)
Value(h, c, key) ==
    IF c = 0 THEN <<>>
    ELSE IF h[c].key = key THEN <<h[c].val>>
    ELSE Value(h, h[c].parent, key)

\* TraceIDFromContext, were the identifier kept in one package-level variable
\* that every attachment overwrites, instead of in the context given.
TraceIDFromContext_Global(h, c) ==
    LET v == Value(h, Len(h), traceIDContextKey)
    IN  IF v = <<>> THEN "" ELSE v[1]

\* TraceIDFromContext, were the first attachment of a chain to win.
TraceIDFromContext_Oldest(h, c) ==
    LET RECURSIVE Up(_, _)
        Up(n, found) ==
            IF n = 0 THEN found
            ELSE Up(h[n].parent,
                    IF h[n].key = traceIDContextKey THEN h[n].val ELSE found)
    IN  Up(c, "")

\* id, _ := ctx.Value(traceIDContextKey{}).(string)
TraceIDFromContext(h, c) ==
    LET v == Value(h, c, traceIDContextKey)
    IN  IF v = <<>> THEN "" ELSE v[1]

\* zapctx.Logger(ctx): the fields of the logger the context carries (the
\* default logger has none), rendered as text.
Logger(h, c) ==
    LET v == Value(h, c, loggerKey)
    IN  IF v = <<>> THEN "" ELSE v[1]

\* zapctx.WithFields(ctx, zap.String(key, value))
WithFields(h, c, key, value) ==
    WithValue(h, c, loggerKey, Logger(h, c) \o "{" \o key \o ":" \o value \o "}")

\* The result of an attachment: the heap after it, the context returned and
\* the number of identifiers generated so far.
Attached(h, n) == [ctxs |-> h, ctx |-> Len(h), gen |-> n]

\* r1: ContextWithTraceID
ContextWithTraceID(h, c, id, n) ==
    LET h1 == WithFields(h, c, TraceIDCtx, id)
    IN  Attached(WithValue(h1, Len(h1), traceIDContextKey, id), n)

\* r1: ContextWithTestingTraceID
ContextWithTestingTraceID(h, c, id, n) ==
    ContextWithTraceID(h, c, testingTraceIDPrefix \o id, n)

\* r1: WithTraceField
WithTraceField(h, c, n) ==
    ContextWithTraceID(h, c, NewTraceID(n), n + 1)

\* r2: WithTraceID stores the id as given.
WithTraceID_r2(h, c, id, n) ==
    Attached(WithValue(h, c, traceIDContextKey, id), n)

\* r2: WithTestingTraceID always prepends the prefix.
WithTestingTraceID_r2(h, c, id, n) ==
    WithTraceID_r2(h, c, testingTraceIDPrefix \o id, n)

\* r3: WithTraceID replaces an empty id by a new one.
WithTraceID(h, c, id, n) ==
    LET id1 == IF id = "" THEN NewTraceID(n) ELSE id
        n1 == IF id = "" THEN n + 1 ELSE n
    IN  Attached(WithValue(h, c, traceIDContextKey, id1), n1)

\* r3: WithTestingTraceID
WithTestingTraceID(h, c, id, n) ==
    LET id1 == IF id = "" THEN NewTraceID(n) ELSE id
        n1 == IF id = "" THEN n + 1 ELSE n
        id2 == IF ~HasPrefix(id1, testingTraceIDPrefix)
               THEN testingTraceIDPrefix \o id1 ELSE id1
    IN  WithTraceID(h, c, id2, n1)

---------------------------------------------------------------------------
(* Inputs.                                                                 *)

UUID_X == "123e4567-e89b-42d3-a456-426614174000"
UUID_Y == "9f1c2d3e-4b5a-4c6d-8e7f-0a1b2c3d4e5f"

\* Strings given to the validity and testing checks.
Ids ==
    { "", "id", "asdasdasdas", "abc-123-invalid",
      "testing", "testing-", "testing-id", "Testing-id", "xtesting-id",
      "testing-" \o UUID_X, "testing-testing-id",
      UUID_X, UUID_Y, NewTraceID(0),
      "123E4567-E89B-42D3-A456-426614174000",
      "123e4567e89b42d3a456426614174000",
      "urn:uuid:123e4567-e89b-42d3-a456-426614174000",
      "URN:UUID:123e4567-e89b-42d3-a456-426614174000",
      "urn-uuid-123e4567-e89b-42d3-a456-426614174000",
      "{123e4567-e89b-42d3-a456-426614174000}",
      "123e4567-e89b-42d3-a456-42661417400",
      "123e4567-e89b-42d3-a456-4266141740000",
      "123e4567-e89b-42d3-a456-42661417400g",
      "123e4567+e89b-42d3-a456-426614174000",
      "123e4567e89b42d3a45642661417400z" }

\* Strings given to the attachment operations.
AttachIds == {"", "id", "testing-id"}

---------------------------------------------------------------------------
(* Calls of the package's functions.  Each records itself in last.         *)

NoCall == [op |-> "none", id |-> "", ctx |-> 0, str |-> "", ok |-> FALSE, new |-> 0]

Call(op, id, c, str, ok, new) ==
    [op |-> op, id |-> id, ctx |-> c, str |-> str, ok |-> ok, new |-> new]

\* Attachments made so far (a logger node is part of the attachment it
\* belongs to).
NAttach(h) == Cardinality({i \in DOMAIN h : h[i].key # loggerKey})

\* The ids a caller may attach to c: the fixed inputs, or the id c already
\* carries, fed back in.
AttachInputs(c) == AttachIds \cup {TraceIDFromContext(ctxs, c)}

HTTPUnchanged == UNCHANGED <<hdrs, reqs, served, sent, chains>>

\* Commit an attachment res made by the function named op.
Attach(op, c, id, res) ==
    /\ NAttach(ctxs) < MaxCtx
    /\ res.gen <= MaxGen
    /\ ctxs' = res.ctxs
    /\ gen' = res.gen
    /\ last' = Call(op, id, c, TraceIDFromContext(res.ctxs, res.ctx), TRUE, res.ctx)
    /\ UNCHANGED rev
    /\ HTTPUnchanged

CallNewTraceID ==
    /\ gen < MaxGen
    /\ gen' = gen + 1
    /\ last' = Call("NewTraceID", "", 0, NewTraceID(gen), TRUE, 0)
    /\ UNCHANGED <<rev, ctxs>>
    /\ HTTPUnchanged

CallIsValidTraceID ==
    /\ rev = "r1"
    /\ \E id \in Ids :
           last' = Call("IsValidTraceID", id, 0, "", isValidTraceID(id), 0)
    /\ UNCHANGED <<rev, gen, ctxs>>
    /\ HTTPUnchanged

CallIsTestingTraceID ==
    /\ \E id \in Ids :
           last' = Call("IsTestingTraceID", id, 0, "", IsTestingTraceID(id), 0)
    /\ UNCHANGED <<rev, gen, ctxs>>
    /\ HTTPUnchanged

CallTraceIDFromContext ==
    /\ \E c \in Ctxs(ctxs) :
           last' = Call("TraceIDFromContext", "", c, TraceIDFromContext(ctxs, c), TRUE, 0)
    /\ UNCHANGED <<rev, gen, ctxs>>
    /\ HTTPUnchanged

\* A caller stores a value of its own in a context.
CallWithValue ==
    \E c \in Ctxs(ctxs) :
        /\ NAttach(ctxs) < MaxCtx
        /\ ctxs' = WithValue(ctxs, c, otherKey, "v")
        /\ last' = Call("WithValue", "", c, TraceIDFromContext(ctxs', Len(ctxs')), TRUE,
                        Len(ctxs'))
        /\ UNCHANGED <<rev, gen>>
        /\ HTTPUnchanged

CallWithTraceField ==
    /\ rev = "r1"
    /\ \E c \in Ctxs(ctxs) :
           Attach("WithTraceField", c, "", WithTraceField(ctxs, c, gen))

CallContextWithTraceID ==
    /\ rev = "r1"
    /\ \E c \in Ctxs(ctxs) : \E id \in AttachInputs(c) :
           Attach("ContextWithTraceID", c, id, ContextWithTraceID(ctxs, c, id, gen))

CallContextWithTestingTraceID ==
    /\ rev = "r1"
    /\ \E c \in Ctxs(ctxs) : \E id \in AttachInputs(c) :
           Attach("ContextWithTestingTraceID", c, id,
                  ContextWithTestingTraceID(ctxs, c, id, gen))

CallWithTraceID ==
    /\ rev \in {"r2", "r3"}
    /\ \E c \in Ctxs(ctxs) : \E id \in AttachInputs(c) :
           Attach("WithTraceID", c, id,
                  IF rev = "r3" THEN WithTraceID(ctxs, c, id, gen)
                  ELSE WithTraceID_r2(ctxs, c, id, gen))

CallWithTestingTraceID ==
    /\ rev \in {"r2", "r3"}
    /\ \E c \in Ctxs(ctxs) : \E id \in AttachInputs(c) :
           Attach("WithTestingTraceID", c, id,
                  IF rev = "r3" THEN WithTestingTraceID(ctxs, c, id, gen)
                  ELSE WithTestingTraceID_r2(ctxs, c, id, gen))

---------------------------------------------------------------------------
(* The identifier policy and context propagation on their own.             *)

Init ==
    /\ rev \in Revisions
    /\ gen = 0
    /\ ctxs = <<>>
    /\ hdrs = <<>>
    /\ reqs = <<>>
    /\ served = <<>>
    /\ sent = <<>>
    /\ last = NoCall
    /\ chains = <<>>

\* The identifier policy: pure functions of their argument.
NextPolicy ==
    \/ CallNewTraceID
    \/ CallIsValidTraceID
    \/ CallIsTestingTraceID

SpecPolicy == Init /\ [][NextPolicy]_vars

\* Context propagation.
Next ==
    \/ CallTraceIDFromContext
    \/ CallWithValue
    \/ CallWithTraceField
    \/ CallContextWithTraceID
    \/ CallContextWithTestingTraceID
    \/ CallWithTraceID
    \/ CallWithTestingTraceID

Spec == Init /\ [][Next]_vars

---------------------------------------------------------------------------
(* HTTP headers and requests.  An http.Header maps a header name to the    *)
(* list of its values; a request holds a pointer to its header map and its *)
(* context.                                                                *)

EmptyHeader == [k \in {} |-> <<>>]

\* http.Header.Get: the first value of the name, "" when there is none.
Get(hm, name) ==
    IF name \in DOMAIN hm /\ Len(hm[name]) > 0 THEN hm[name][1] ELSE ""

\* http.Header.Set: the name holds the single value afterwards.
Set(hm, name, value) ==
    [k \in DOMAIN hm \cup {name} |-> IF k = name THEN <<value>> ELSE hm[k]]

\* WithTraceID as the revision rv defines it (r1 names it ContextWithTraceID).
WithTraceIDOf(rv, h, c, id, n) ==
    CASE rv = "r1" -> ContextWithTraceID(h, c, id, n)
      [] rv = "r2" -> WithTraceID_r2(h, c, id, n)
      [] OTHER -> WithTraceID(h, c, id, n)

\* r1: TraceIDFromRequest
TraceIDFromRequest(hs, req, n) ==
    LET existingTraceID == Get(hs[req.hdr], TraceIDHeader)
    IN  IF isValidTraceID(existingTraceID)
        THEN [id |-> existingTraceID, gen |-> n]
        ELSE [id |-> NewTraceID(n), gen |-> n + 1]

\* SetTraceHeader, were it to add the identifier to the values the header
\* already has (Header.Add) instead of replacing them.
SetTraceHeader_Add(hs, h, c, req, n) ==
    LET id0 == TraceIDFromContext(h, c)
        id == IF ~isValidTraceID(id0) THEN NewTraceID(n) ELSE id0
        old == hs[req.hdr]
        vals == IF TraceIDHeader \in DOMAIN old THEN old[TraceIDHeader] ELSE <<>>
    IN  [hdrs |-> [hs EXCEPT ![req.hdr] =
                      [k \in DOMAIN old \cup {TraceIDHeader} |->
                          IF k = TraceIDHeader THEN Append(vals, id) ELSE old[k]]],
         id |-> id,
         gen |-> IF ~isValidTraceID(id0) THEN n + 1 ELSE n]

\* r1: SetTraceHeader writes into the header map of the request it is given.
SetTraceHeader(hs, h, c, req, n) ==
    LET id0 == TraceIDFromContext(h, c)
        id == IF ~isValidTraceID(id0) THEN NewTraceID(n) ELSE id0
    IN  [hdrs |-> [hs EXCEPT ![req.hdr] = Set(@, TraceIDHeader, id)],
         id |-> id,
         gen |-> IF ~isValidTraceID(id0) THEN n + 1 ELSE n]

\* req.WithContext(ctx): a shallow copy of the request, sharing its header
\* map.
WithContext(req, c) == [hdr |-> req.hdr, ctx |-> c]

\* Handler, were it to ignore the header and always generate.
Handler_AlwaysNew(rv, hs, h, req, w0, n) ==
    LET traceID0 == Get(hs[req.hdr], TraceIDHeader)
        traceID == NewTraceID(n)
        w == Set(w0, TraceIDHeader, traceID)
        att == WithTraceIDOf(rv, h, req.ctx, traceID, n + 1)
    IN  [ctxs |-> att.ctxs, gen |-> att.gen,
         call |-> [req |-> req, in |-> traceID0, w |-> w, gen0 |-> n,
                   ctx |-> att.ctx, passed |-> WithContext(req, att.ctx),
                   generated |-> att.gen # n]]

\* Handler, were it to call the wrapped handler with the request it
\* received instead of r.WithContext(...).
Handler_NoContext(rv, hs, h, req, w0, n) ==
    LET traceID0 == Get(hs[req.hdr], TraceIDHeader)
        traceID == IF traceID0 = "" THEN NewTraceID(n) ELSE traceID0
        n1 == IF traceID0 = "" THEN n + 1 ELSE n
        w == Set(w0, TraceIDHeader, traceID)
    IN  [ctxs |-> h, gen |-> n1,
         call |-> [req |-> req, in |-> traceID0, w |-> w, gen0 |-> n,
                   ctx |-> req.ctx, passed |-> req,
                   generated |-> n1 # n]]

\* r2, r3: the function Handler(h) returns, serving request req with a
\* response writer whose header map is w0.  The result holds what the wrapped
\* handler is called with: the response header map w as it is at the call,
\* and the request req.WithContext(ctx), which shares req's header map.
Handler(rv, hs, h, req, w0, n) ==
    LET traceID0 == Get(hs[req.hdr], TraceIDHeader)
        traceID == IF traceID0 = "" THEN NewTraceID(n) ELSE traceID0
        n1 == IF traceID0 = "" THEN n + 1 ELSE n
        w == Set(w0, TraceIDHeader, traceID)
        att == WithTraceIDOf(rv, h, req.ctx, traceID, n1)
    IN  [ctxs |-> att.ctxs, gen |-> att.gen,
         call |-> [req |-> req, in |-> traceID0, w |-> w, gen0 |-> n,
                   ctx |-> att.ctx, passed |-> WithContext(req, att.ctx),
                   generated |-> att.gen # n]]

\* RoundTrip, were the context's id to win over a header already set.
RoundTrip_ContextFirst(hs, h, req, t, reply, n) ==
    LET rt == IF t = "nil" THEN "http.DefaultTransport" ELSE t
        old == hs[req.hdr]
        had == Get(old, TraceIDHeader)
        copied == [k \in DOMAIN old |-> old[k]]
        traceID0 == TraceIDFromContext(h, req.ctx)
        traceID == IF traceID0 = "" THEN NewTraceID(n) ELSE traceID0
    IN  IF had # "" /\ traceID0 = ""
        THEN [hdrs |-> hs, gen |-> n,
              call |-> [req |-> req, rt |-> rt, had |-> had, orig |-> old, gen0 |-> n,
                        same |-> TRUE, header |-> old, ctx |-> req.ctx,
                        generated |-> FALSE, ret |-> reply]]
        ELSE [hdrs |-> hs, gen |-> IF traceID0 = "" THEN n + 1 ELSE n,
              call |-> [req |-> req, rt |-> rt, had |-> had, orig |-> old, gen0 |-> n,
                        same |-> FALSE,
                        header |-> Set(copied, TraceIDHeader, traceID),
                        ctx |-> req.ctx, generated |-> traceID0 = "",
                        ret |-> reply]]

\* RoundTrip, were the new header map not filled from the old one.
RoundTrip_NoCopy(hs, h, req, t, reply, n) ==
    LET rt == IF t = "nil" THEN "http.DefaultTransport" ELSE t
        old == hs[req.hdr]
        had == Get(old, TraceIDHeader)
        traceID0 == TraceIDFromContext(h, req.ctx)
        traceID == IF traceID0 = "" THEN NewTraceID(n) ELSE traceID0
    IN  IF had # ""
        THEN [hdrs |-> hs, gen |-> n,
              call |-> [req |-> req, rt |-> rt, had |-> had, orig |-> old, gen0 |-> n,
                        same |-> TRUE, header |-> old, ctx |-> req.ctx,
                        generated |-> FALSE, ret |-> reply]]
        ELSE [hdrs |-> hs, gen |-> IF traceID0 = "" THEN n + 1 ELSE n,
              call |-> [req |-> req, rt |-> rt, had |-> had, orig |-> old, gen0 |-> n,
                        same |-> FALSE,
                        header |-> Set(EmptyHeader, TraceIDHeader, traceID),
                        ctx |-> req.ctx, generated |-> traceID0 = "",
                        ret |-> reply]]

\* RoundTrip, were it to set the header on the request's own header map.
RoundTrip_InPlace(hs, h, req, t, reply, n) ==
    LET rt == IF t = "nil" THEN "http.DefaultTransport" ELSE t
        old == hs[req.hdr]
        had == Get(old, TraceIDHeader)
        traceID0 == TraceIDFromContext(h, req.ctx)
        traceID == IF traceID0 = "" THEN NewTraceID(n) ELSE traceID0
    IN  IF had # ""
        THEN [hdrs |-> hs, gen |-> n,
              call |-> [req |-> req, rt |-> rt, had |-> had, orig |-> old, gen0 |-> n,
                        same |-> TRUE, header |-> old, ctx |-> req.ctx,
                        generated |-> FALSE, ret |-> reply]]
        ELSE [hdrs |-> [hs EXCEPT ![req.hdr] = Set(old, TraceIDHeader, traceID)],
              gen |-> IF traceID0 = "" THEN n + 1 ELSE n,
              call |-> [req |-> req, rt |-> rt, had |-> had, orig |-> old, gen0 |-> n,
                        same |-> TRUE,
                        header |-> Set(old, TraceIDHeader, traceID),
                        ctx |-> req.ctx, generated |-> traceID0 = "",
                        ret |-> reply]]

\* RoundTrip, were it to wrap the error of the wrapped sender in one of its
\* own and drop the response that came with it.
RoundTrip_WrapError(hs, h, req, t, reply, n) ==
    LET rt == IF t = "nil" THEN "http.DefaultTransport" ELSE t
        old == hs[req.hdr]
        had == Get(old, TraceIDHeader)
        copied == [k \in DOMAIN old |-> old[k]]
        traceID0 == TraceIDFromContext(h, req.ctx)
        traceID == IF traceID0 = "" THEN NewTraceID(n) ELSE traceID0
        ret == IF reply.err = "nil" THEN reply
               ELSE [resp |-> "nil", err |-> "ctxtrace: " \o reply.err]
    IN  IF had # ""
        THEN [hdrs |-> hs, gen |-> n,
              call |-> [req |-> req, rt |-> rt, had |-> had, orig |-> old, gen0 |-> n,
                        same |-> TRUE, header |-> old, ctx |-> req.ctx,
                        generated |-> FALSE, ret |-> ret]]
        ELSE [hdrs |-> hs, gen |-> IF traceID0 = "" THEN n + 1 ELSE n,
              call |-> [req |-> req, rt |-> rt, had |-> had, orig |-> old, gen0 |-> n,
                        same |-> FALSE,
                        header |-> Set(copied, TraceIDHeader, traceID),
                        ctx |-> req.ctx, generated |-> traceID0 = "",
                        ret |-> ret]]

\* r2, r3: Transport.RoundTrip(req) with RoundTripper field t.  The result
\* holds the header heap after the call, what the wrapped sender rt is called
\* with (the request itself, or a copy of it with a header map of its own)
\* and what RoundTrip returns, given that rt returns reply.
RoundTrip(hs, h, req, t, reply, n) ==
    LET rt == IF t = "nil" THEN "http.DefaultTransport" ELSE t
        old == hs[req.hdr]
        had == Get(old, TraceIDHeader)
        copied == [k \in DOMAIN old |-> old[k]]
        traceID0 == TraceIDFromContext(h, req.ctx)
        traceID == IF traceID0 = "" THEN NewTraceID(n) ELSE traceID0
    IN  IF had # ""
        THEN [hdrs |-> hs, gen |-> n,
              call |-> [req |-> req, rt |-> rt, had |-> had, orig |-> old, gen0 |-> n,
                        same |-> TRUE, header |-> old, ctx |-> req.ctx,
                        generated |-> FALSE, ret |-> reply]]
        ELSE [hdrs |-> hs, gen |-> IF traceID0 = "" THEN n + 1 ELSE n,
              call |-> [req |-> req, rt |-> rt, had |-> had, orig |-> old, gen0 |-> n,
                        same |-> FALSE,
                        header |-> Set(copied, TraceIDHeader, traceID),
                        ctx |-> req.ctx, generated |-> traceID0 = "",
                        ret |-> reply]]

---------------------------------------------------------------------------
(* The HTTP boundary: callers build requests, the inbound middleware       *)
(* serves them, the outbound transport sends them.                         *)

\* Header maps of the requests callers build and servers receive.
HeaderInputs ==
    { [k \in {"Accept"} |-> <<"text/html", "*/*">>],
      [k \in {"Accept", TraceIDHeader} |->
          IF k = TraceIDHeader THEN <<"">> ELSE <<"text/html", "*/*">>],
      [k \in {"Accept", TraceIDHeader} |->
          IF k = TraceIDHeader THEN <<UUID_X>> ELSE <<"text/html", "*/*">>],
      [k \in {TraceIDHeader} |-> <<"abc-123-invalid">>] }

\* Header maps of the response writers the middleware is given.
WriterInputs == {EmptyHeader, [k \in {TraceIDHeader} |-> <<"stale">>]}

\* Identifiers callers attach to the contexts of their requests ("": none).
ClientIds == {"", UUID_Y, "testing-z"}

\* Values of Transport.RoundTripper, and what a wrapped sender may return.
RoundTrippers == {"nil", "custom"}
Replies == {[resp |-> "200 OK", err |-> "nil"],
            [resp |-> "nil", err |-> "connection refused"]}

\* What a call of the wrapped sender that has not returned yet has returned.
InFlight == [resp |-> "in flight", err |-> "in flight"]

\* Requests built, requests served and requests sent so far.
Steps == Len(reqs) + Len(served) + Len(sent)

\* The contexts the wrapped handlers were called with.
ServedCtxs == {served[i].ctx : i \in DOMAIN served}

\* The context a caller gives a request: context.Background() with id
\* attached by the revision's own function (with nothing attached when id
\* is ""), or the context a wrapped handler was called with.
ClientContexts ==
    {IF id = "" THEN [ctxs |-> ctxs, ctx |-> 0, gen |-> gen]
     ELSE WithTraceIDOf(rev, ctxs, 0, id, gen) : id \in ClientIds}
    \cup {[ctxs |-> ctxs, ctx |-> c, gen |-> gen] : c \in ServedCtxs}

\* The context a request already has.
OwnContext(req) == [ctxs |-> ctxs, ctx |-> req.ctx, gen |-> gen]

\* http.NewRequest and the caller's own header writes, or a request a server
\* received: a request with a header map of its own.
NewRequest ==
    \E hm \in HeaderInputs : \E att \in ClientContexts :
        /\ Steps < MaxCalls
        /\ ctxs' = att.ctxs
        /\ hdrs' = Append(hdrs, hm)
        /\ reqs' = Append(reqs, [hdr |-> Len(hdrs) + 1, ctx |-> att.ctx])
        /\ UNCHANGED <<rev, gen, served, sent, last, chains>>

CallTraceIDFromRequest ==
    /\ rev = "r1"
    /\ \E r \in DOMAIN reqs :
           LET res == TraceIDFromRequest(hdrs, reqs[r], gen)
           IN  /\ res.gen <= MaxGen
               /\ gen' = res.gen
               /\ last' = Call("TraceIDFromRequest",
                               Get(hdrs[reqs[r].hdr], TraceIDHeader), reqs[r].ctx,
                               res.id, res.gen # gen, 0)
    /\ UNCHANGED <<rev, ctxs, hdrs, reqs, served, sent, chains>>

\* A server passes a request it received to the middleware.
CallHandler ==
    /\ rev \in {"r2", "r3"}
    /\ \E r \in DOMAIN reqs : \E w0 \in WriterInputs :
           LET res == Handler(rev, hdrs, ctxs, reqs[r], w0, gen)
           IN  /\ Steps < MaxCalls
               /\ res.gen <= MaxGen
               /\ ctxs' = res.ctxs
               /\ gen' = res.gen
               /\ served' = Append(served, res.call)
               /\ last' = Call("Handler", res.call.in, reqs[r].ctx,
                               Get(res.call.w, TraceIDHeader), res.call.generated,
                               res.call.ctx)
    /\ UNCHANGED <<rev, hdrs, reqs, sent, chains>>

\* A client sends a request it built, as it is or as req.WithContext(ctx),
\* through an http.Client whose Transport is Transport{RoundTripper: t}:
\* RoundTrip up to its call of the wrapped sender, which blocks.
CallRoundTrip ==
    /\ rev \in {"r2", "r3"}
    /\ \E r \in DOMAIN reqs : \E att \in ClientContexts \cup {OwnContext(reqs[r])} :
       \E t \in RoundTrippers :
           LET req == IF att.ctx = reqs[r].ctx THEN reqs[r]
                      ELSE WithContext(reqs[r], att.ctx)
               res == RoundTrip(hdrs, att.ctxs, req, t, InFlight, gen)
           IN  /\ Steps < MaxCalls
               /\ res.gen <= MaxGen
               /\ ctxs' = att.ctxs
               /\ hdrs' = res.hdrs
               /\ gen' = res.gen
               /\ sent' = Append(sent, [res.call EXCEPT !.ret = InFlight]
                                        @@ [t |-> t, reply |-> InFlight])
               /\ last' = Call("RoundTrip", res.call.had, req.ctx,
                               Get(res.call.header, TraceIDHeader), res.call.generated, 0)
    /\ UNCHANGED <<rev, reqs, served, chains>>

\* The sends whose wrapped sender has not returned yet.
Waiting == {i \in DOMAIN sent : sent[i].reply = InFlight}

\* What the call of RoundTrip recorded as s returns when its wrapped sender
\* returns reply.
Returned(s, reply) ==
    RoundTrip(hdrs, ctxs, s.req, s.t, reply, s.gen0).call.ret

\* The wrapped sender of a send in flight returns, and RoundTrip returns to
\* its caller; other calls may have been made in between.
ReturnRoundTrip ==
    /\ \E i \in Waiting : \E reply \in Replies :
           sent' = [sent EXCEPT ![i].ret = Returned(sent[i], reply),
                                ![i].reply = reply]
    /\ UNCHANGED <<rev, gen, ctxs, hdrs, reqs, served, last, chains>>

NextHTTP ==
    \/ NewRequest
    \/ CallTraceIDFromRequest
    \/ CallHandler
    \/ CallRoundTrip
    \/ ReturnRoundTrip

SpecHTTP == Init /\ [][NextHTTP]_vars

---------------------------------------------------------------------------
(* r1: a client sets the trace header of a request it built itself.        *)

\* A client calls SetTraceHeader(ctx, req) with a request it built and a
\* context it holds.
CallSetTraceHeader ==
    /\ rev = "r1"
    /\ \E r \in DOMAIN reqs : \E c \in Ctxs(ctxs) :
           LET res == SetTraceHeader(hdrs, ctxs, c, reqs[r], gen)
           IN  /\ res.gen <= MaxGen
               /\ hdrs' = res.hdrs
               /\ gen' = res.gen
               /\ last' = Call("SetTraceHeader",
                               Get(hdrs[reqs[r].hdr], TraceIDHeader), c,
                               Get(hdrs'[reqs[r].hdr], TraceIDHeader),
                               res.gen # gen, r)
    /\ UNCHANGED <<rev, ctxs, reqs, served, sent, chains>>

\* The client has built one request, which it uses for every call.
InitSetHeader ==
    /\ rev = "r1"
    /\ gen = 0
    /\ ctxs = <<>>
    /\ \E hm \in HeaderInputs : hdrs = <<hm>>
    /\ reqs = <<[hdr |-> 1, ctx |-> 0]>>
    /\ served = <<>>
    /\ sent = <<>>
    /\ last = NoCall
    /\ chains = <<>>

NextSetHeader ==
    \/ CallWithTraceField
    \/ CallContextWithTraceID
    \/ CallSetTraceHeader

SpecSetHeader == InitSetHeader /\ [][NextSetHeader]_vars

---------------------------------------------------------------------------
(* Concurrent call chains.  Each chain is one goroutine of the server: it  *)
(* runs the middleware on the request it received, then the wrapped        *)
(* handler looks the identifier up in its context and sends the one base   *)
(* request all chains share, as base.WithContext(ctx), through Transport.  *)
(* The steps of different chains interleave freely.                        *)

\* The identifier the client of chain i sends: valid, one per chain.
ClientUUID(i) == "0e4a5b6c-7d8e-4f90-a1b2-c3d4e5f6a7b" \o Digits[i]

\* The header map of the request chain i receives: with the client's
\* identifier, or without a trace header.
InboundHeaders(i) ==
    { [k \in {"Accept"} |-> <<"text/html", "*/*">>],
      [k \in {"Accept", TraceIDHeader} |->
          IF k = TraceIDHeader THEN <<ClientUUID(i)>> ELSE <<"text/html", "*/*">>] }

\* The request object every chain sends: reqs[BaseReq], without a trace
\* header.  The request chain i received is reqs[Inbound(i)].
BaseReq == 1
Inbound(i) == i + 1

\* A chain about to run the middleware.
NewChain == [pc |-> "receive", id |-> "", w |-> EmptyHeader, ctx |-> 0,
             read |-> "", out |-> ""]

InitConc ==
    /\ rev \in {"r2", "r3"}
    /\ gen = 0
    /\ ctxs = <<>>
    /\ \E in \in [1..MaxChains -> UNION {InboundHeaders(i) : i \in 1..MaxChains}] :
           /\ \A i \in 1..MaxChains : in[i] \in InboundHeaders(i)
           /\ hdrs = <<[k \in {"Accept"} |-> <<"application/json">>]>>
                        \o [i \in 1..MaxChains |-> in[i]]
    /\ reqs = <<[hdr |-> 1, ctx |-> 0]>>
                \o [i \in 1..MaxChains |-> [hdr |-> Inbound(i), ctx |-> 0]]
    /\ served = <<>>
    /\ sent = <<>>
    /\ last = NoCall
    /\ chains = [i \in 1..MaxChains |-> NewChain]

\* Handler, up to the call of WithTraceID: the identifier is read from the
\* header or generated, and set on the response header.
ChainReceive(i) ==
    LET res == Handler(rev, hdrs, ctxs, reqs[Inbound(i)], EmptyHeader, gen)
    IN  /\ chains[i].pc = "receive"
        /\ gen' = res.gen
        /\ chains' = [chains EXCEPT ![i].pc = "attach", ![i].w = res.call.w,
                                     ![i].id = Get(res.call.w, TraceIDHeader)]
        /\ UNCHANGED <<rev, ctxs, hdrs, reqs, served, sent, last>>

\* Handler, from the call of WithTraceID on: the wrapped handler is called
\* with the derived context.
ChainAttach(i) ==
    LET att == WithTraceIDOf(rev, ctxs, reqs[Inbound(i)].ctx, chains[i].id, gen)
    IN  /\ chains[i].pc = "attach"
        /\ ctxs' = att.ctxs
        /\ gen' = att.gen
        /\ chains' = [chains EXCEPT ![i].pc = "lookup", ![i].ctx = att.ctx]
        /\ UNCHANGED <<rev, hdrs, reqs, served, sent, last>>

\* The wrapped handler reads the identifier of its context.
ChainLookup(i) ==
    /\ chains[i].pc = "lookup"
    /\ chains' = [chains EXCEPT ![i].pc = "send",
                                 ![i].read = TraceIDFromContext(ctxs, chains[i].ctx)]
    /\ UNCHANGED <<rev, gen, ctxs, hdrs, reqs, served, sent, last>>

\* The wrapped handler sends base.WithContext(ctx) through the Transport:
\* RoundTrip up to its call of the wrapped sender, which blocks.
ChainSend(i) ==
    \E t \in RoundTrippers :
        LET req == WithContext(reqs[BaseReq], chains[i].ctx)
            res == RoundTrip(hdrs, ctxs, req, t, InFlight, gen)
        IN  /\ chains[i].pc = "send"
            /\ hdrs' = res.hdrs
            /\ gen' = res.gen
            /\ chains' = [chains EXCEPT ![i].pc = "wait",
                                         ![i].out = Get(res.call.header, TraceIDHeader)]
            /\ UNCHANGED <<rev, ctxs, reqs, served, sent, last>>

\* The wrapped sender returns, and RoundTrip returns to the wrapped handler.
ChainReturn(i) ==
    /\ chains[i].pc = "wait"
    /\ chains' = [chains EXCEPT ![i].pc = "done"]
    /\ UNCHANGED <<rev, gen, ctxs, hdrs, reqs, served, sent, last>>

NextConc ==
    \/ \E i \in DOMAIN chains : ChainReceive(i)
    \/ \E i \in DOMAIN chains : ChainAttach(i)
    \/ \E i \in DOMAIN chains : ChainLookup(i)
    \/ \E i \in DOMAIN chains : ChainSend(i)
    \/ \E i \in DOMAIN chains : ChainReturn(i)

SpecConc == InitConc /\ [][NextConc]_vars

---------------------------------------------------------------------------
(* A chain of services.  Every service wraps its handler in Handler and    *)
(* sends its outbound requests through Transport with the context its      *)
(* handler was called with; what the wrapped sender puts on the wire is    *)
(* the request the next service receives.                                  *)

\* Header maps of outbound requests without a trace header.
NoTraceHeader == {hm \in HeaderInputs : TraceIDHeader \notin DOMAIN hm}

\* The first service has received a request from outside the chain.
InitChain ==
    /\ rev \in {"r2", "r3"}
    /\ gen = 0
    /\ ctxs = <<>>
    /\ \E hm \in HeaderInputs : hdrs = <<hm>>
    /\ reqs = <<[hdr |-> 1, ctx |-> 0]>>
    /\ served = <<>>
    /\ sent = <<>>
    /\ last = NoCall
    /\ chains = <<>>

\* The service that received reqs[k] passes it to the middleware; requests
\* are served in the order they were received.
HopServe ==
    \E w0 \in WriterInputs :
        LET k == Len(served) + 1
            res == Handler(rev, hdrs, ctxs, reqs[k], w0, gen)
        IN  /\ k \in DOMAIN reqs
            /\ ctxs' = res.ctxs
            /\ gen' = res.gen
            /\ served' = Append(served, res.call)
            /\ UNCHANGED <<rev, hdrs, reqs, sent, last, chains>>

\* The handler of hop j builds a request without a trace header, with the
\* context it was called with, and sends it through Transport: RoundTrip up
\* to its call of the wrapped sender, which blocks the handler until it
\* returns.
HopSend ==
    \E j \in DOMAIN served : \E hm \in NoTraceHeader :
        LET t == "nil"
            hs == Append(hdrs, hm)
            req == [hdr |-> Len(hs), ctx |-> served[j].ctx]
            res == RoundTrip(hs, ctxs, req, t, InFlight, gen)
        IN  /\ Len(sent) < MaxHops
            /\ \A i \in Waiting : sent[i].from # j
            /\ gen' = res.gen
            /\ hdrs' = res.hdrs
            /\ sent' = Append(sent, [res.call EXCEPT !.ret = InFlight] @@
                           [t |-> t, reply |-> InFlight, from |-> j, to |-> 0])
            /\ UNCHANGED <<rev, ctxs, reqs, served, last, chains>>

\* The wrapped sender delivers a request it was called with: the next
\* service receives a request with the headers that were sent and a context
\* of its own.  The sender may have given up on the request by then.
HopDeliver ==
    \E i \in DOMAIN sent :
        /\ sent[i].to = 0
        /\ Len(reqs) < MaxHops
        /\ hdrs' = Append(hdrs, sent[i].header)
        /\ reqs' = Append(reqs, [hdr |-> Len(hdrs) + 1, ctx |-> 0])
        /\ sent' = [sent EXCEPT ![i].to = Len(reqs) + 1]
        /\ UNCHANGED <<rev, gen, ctxs, served, last, chains>>

\* The wrapped sender of a send in flight returns, and RoundTrip returns to
\* the handler that called it.  A response comes from a service that has
\* passed the request to its middleware; an error may come at any time.
HopReturn ==
    \E i \in Waiting : \E reply \in Replies :
        /\ reply.err = "nil" => sent[i].to \in DOMAIN served
        /\ sent' = [sent EXCEPT ![i].ret = Returned(sent[i], reply),
                                 ![i].reply = reply]
        /\ UNCHANGED <<rev, gen, ctxs, hdrs, reqs, served, last, chains>>

NextChain ==
    \/ HopServe
    \/ HopSend
    \/ HopDeliver
    \/ HopReturn

SpecChain == InitChain /\ [][NextChain]_vars

---------------------------------------------------------------------------
(* Properties of the identifier policy and of context propagation.         *)

\* Identifiers uuid.Parse accepts, and strings it rejects, by the format.
WellFormed == {UUID_X, UUID_Y, NewTraceID(0), NewTraceID(MaxGen - 1),
               "123E4567-E89B-42D3-A456-426614174000"}
Malformed == {"id", "asdasdasdas", "abc-123-invalid", "testing", "Testing-id",
              "xtesting-id", "123e4567-e89b-42d3-a456-42661417400g"}

\* C1: IsValidTraceID(id) is false for the empty id, true for every id that
\* starts with "testing-" whatever follows, and otherwise true exactly when
\* uuid.Parse accepts id.
C1_IsValidTraceID ==
    last.op = "IsValidTraceID" =>
        /\ last.id = "" => ~last.ok
        /\ HasPrefix(last.id, "testing-") => last.ok
        /\ last.id # "" /\ ~HasPrefix(last.id, "testing-") =>
               (last.ok <=> uuidParseOK(last.id))
        /\ last.id \in WellFormed => last.ok
        /\ last.id \in Malformed => ~last.ok

\* C1 witness: the bare prefix, with an empty suffix, was judged valid.
C1_Witness ==
    last.op = "IsValidTraceID" /\ last.id = "testing-" /\ last.ok

\* C2: attaching a non-empty id as a testing trace ID stores it with the
\* prefix exactly once: unchanged when it already starts with "testing-",
\* prefixed otherwise.
C2_TestingPrefixOnce ==
    last.op = "WithTestingTraceID" /\ last.id # "" =>
        last.str = IF HasPrefix(last.id, "testing-") THEN last.id
                   ELSE "testing-" \o last.id

\* C3: the context returned by WithTraceID or WithTestingTraceID never
\* carries the empty trace ID.
C3_NeverEmptyStored ==
    last.op \in {"WithTraceID", "WithTestingTraceID"} =>
        TraceIDFromContext(ctxs, last.new) # ""

\* C4: a context derived by attaching a non-empty id returns that id; a
\* context derived by storing an unrelated value returns what its parent
\* returns; and every context that existed before a step returns after it
\* what it returned before.
C4_LastAttachmentWins ==
    [][ /\ \A c \in Ctxs(ctxs) :
               TraceIDFromContext(ctxs', c) = TraceIDFromContext(ctxs, c)
        /\ last'.op \in {"WithTraceID", "ContextWithTraceID"} /\ last'.id # "" =>
               TraceIDFromContext(ctxs', last'.new) = last'.id
        /\ last'.op = "WithValue" =>
               TraceIDFromContext(ctxs', last'.new) = TraceIDFromContext(ctxs, last'.ctx)
      ]_vars

\* C4 witness: an id was attached to a context that already carried a
\* different one, beneath a value of the caller's own.
C4_Witness ==
    /\ last.op \in {"WithTraceID", "ContextWithTraceID"}
    /\ last.id # ""
    /\ TraceIDFromContext(ctxs, last.ctx) \notin {"", last.id}
    /\ TraceIDFromContext(ctxs, last.new) = last.id

---------------------------------------------------------------------------
(* Properties of the HTTP boundary.                                        *)

\* Identifiers uuid.New has produced so far.
Generated == {NewTraceID(k) : k \in 0..(gen - 1)}

Invalid(id) == id # "" /\ ~isValidTraceID(id)

\* The trace ID the context of a served call carries.
ServedID(s) == TraceIDFromContext(ctxs, s.ctx)

\* C5: the middleware answers a non-empty invalid X-Trace-Id
\* request header with a valid identifier different from it, and neither
\* reflects the invalid value nor attaches it to the context.
C5_InvalidHeaderReplaced ==
    \A i \in DOMAIN served :
        LET s == served[i]
        IN  Invalid(s.in) =>
                /\ isValidTraceID(Get(s.w, TraceIDHeader))
                /\ Get(s.w, TraceIDHeader) # s.in
                /\ ServedID(s) # s.in

\* C6: with a valid X-Trace-Id request header X the response header is X,
\* the context given to the wrapped handler carries X, and no identifier is
\* generated.
C6_ValidHeaderKept ==
    \A i \in DOMAIN served :
        LET s == served[i]
        IN  isValidTraceID(s.in) =>
                /\ Get(s.w, TraceIDHeader) = s.in
                /\ s.w[TraceIDHeader] = <<s.in>>
                /\ ServedID(s) = s.in
                /\ ~s.generated

\* C6 witness: a request with header UUID_X was served.
C6_Witness ==
    \E i \in DOMAIN served :
        served[i].in = UUID_X /\ ServedID(served[i]) = UUID_X

\* C7: whatever the request header, the wrapped handler is called
\* with a context that carries a valid trace identifier and a response
\* header that is set and equal to it.
C7_HandlerSeesValidID ==
    \A i \in DOMAIN served :
        LET s == served[i]
        IN  /\ isValidTraceID(ServedID(s))
            /\ Get(s.w, TraceIDHeader) = ServedID(s)

\* The trace ID of the context of the request given to RoundTrip.
SentCtxID(s) == TraceIDFromContext(ctxs, s.req.ctx)

\* C8: a request that carries a non-empty X-Trace-Id header Y reaches the
\* wrapped sender as the same request with the same header map, whatever
\* its context carries, and no identifier is generated.
C8_HeaderAlreadySet ==
    \A i \in DOMAIN sent :
        LET s == sent[i]
        IN  s.had # "" =>
                /\ s.same
                /\ s.ctx = s.req.ctx
                /\ s.header = s.orig
                /\ Get(s.header, TraceIDHeader) = s.had
                /\ ~s.generated

\* C8 witness: a request with header UUID_X was sent with a context that
\* carries UUID_Y.
C8_Witness ==
    \E i \in DOMAIN sent :
        /\ sent[i].had = UUID_X
        /\ SentCtxID(sent[i]) = UUID_Y
        /\ Get(sent[i].header, TraceIDHeader) = UUID_X

\* C9: a request without a non-empty X-Trace-Id header reaches the wrapped
\* sender with the header set to its context's id Z when Z is non-empty, and
\* otherwise to a newly generated valid identifier; every other header is as
\* in the original request.
C9_HeaderFromContext ==
    \A i \in DOMAIN sent :
        LET s == sent[i]
            z == SentCtxID(s)
            id == Get(s.header, TraceIDHeader)
        IN  s.had = "" =>
                /\ z # "" => id = z /\ ~s.generated
                /\ z = "" => /\ id = NewTraceID(s.gen0)
                             /\ s.generated
                             /\ id \in Generated
                             /\ isValidTraceID(id)
                /\ s.header[TraceIDHeader] = <<id>>
                /\ DOMAIN s.header = DOMAIN s.orig \cup {TraceIDHeader}
                /\ \A k \in DOMAIN s.orig \ {TraceIDHeader} : s.header[k] = s.orig[k]

\* C9 witness: a request with an Accept header and no trace header was sent
\* with a context that carries "testing-z".
C9_Witness ==
    \E i \in DOMAIN sent :
        /\ sent[i].had = ""
        /\ "Accept" \in DOMAIN sent[i].orig
        /\ SentCtxID(sent[i]) = "testing-z"
        /\ Get(sent[i].header, TraceIDHeader) = "testing-z"

\* C10: the header map of a request given to RoundTrip holds afterwards what
\* it held before; a request sent without X-Trace-Id has none afterwards, and
\* sends that share a header map each carry their own context's id.
C10_CallerRequestUntouched ==
    \A i \in DOMAIN sent :
        LET s == sent[i]
        IN  /\ hdrs[s.req.hdr] = s.orig
            /\ s.had = "" => Get(hdrs[s.req.hdr], TraceIDHeader) = ""
            /\ s.had = "" /\ SentCtxID(s) # "" =>
                   Get(s.header, TraceIDHeader) = SentCtxID(s)

\* C10 witness: one base request was sent twice, with contexts that carry
\* different ids, and each send carried the id of its own context.
C10_Witness ==
    \E i, j \in DOMAIN sent :
        /\ i < j
        /\ sent[i].req.hdr = sent[j].req.hdr
        /\ sent[i].had = "" /\ sent[j].had = ""
        /\ SentCtxID(sent[i]) = UUID_Y
        /\ SentCtxID(sent[j]) = "testing-z"
        /\ Get(sent[i].header, TraceIDHeader) = UUID_Y
        /\ Get(sent[j].header, TraceIDHeader) = "testing-z"

---------------------------------------------------------------------------
(* Properties of concurrent call chains.                                   *)

\* The identifier of chain i: the one its client sent, and when the client
\* sent none, the one the middleware generated for it and set on its
\* response header ("" until then).
Own(i) ==
    LET given == Get(hdrs[reqs[Inbound(i)].hdr], TraceIDHeader)
    IN  IF given # "" THEN given ELSE Get(chains[i].w, TraceIDHeader)

\* C11: in every interleaving of the steps of concurrent call chains that
\* send one shared base request, the identifier a chain reads from its
\* context and the identifier it sends on its outbound header are that
\* chain's own identifier, and never the identifier of another chain.
C11_ChainsIsolated ==
    \A i \in DOMAIN chains :
        /\ chains[i].pc \in {"send", "wait", "done"} =>
               /\ chains[i].read # ""
               /\ chains[i].read = Own(i)
               /\ \A j \in DOMAIN chains \ {i} : chains[i].read # Own(j)
        /\ chains[i].pc \in {"wait", "done"} =>
               /\ chains[i].out = Own(i)
               /\ \A j \in DOMAIN chains \ {i} : chains[i].out # Own(j)

\* Two chains ran interleaved to their ends: neither client sent an
\* identifier, the second chain's middleware generated its identifier
\* first, the first chain's middleware attached its identifier first.
C11_Witness ==
    /\ \A i \in DOMAIN chains : chains[i].pc = "done"
    /\ chains[1].ctx < chains[2].ctx
    /\ chains[2].out = NewTraceID(0)
    /\ chains[1].out = NewTraceID(1)
    /\ Cardinality({chains[i].out : i \in DOMAIN chains}) = Len(chains)

---------------------------------------------------------------------------
(* Properties of SetTraceHeader.                                           *)

\* C12: after SetTraceHeader(ctx, req), whatever ctx carries and whatever
\* the header held before, req's X-Trace-Id header holds one value and it is
\* a valid identifier: the identifier of ctx when that one is valid, and a
\* newly generated one otherwise.
C12_SetTraceHeader ==
    last.op = "SetTraceHeader" =>
        LET z == TraceIDFromContext(ctxs, last.ctx)
            header == hdrs[reqs[last.new].hdr]
        IN  /\ header[TraceIDHeader] = <<last.str>>
            /\ isValidTraceID(last.str)
            /\ isValidTraceID(z) => last.str = z /\ ~last.ok
            /\ ~isValidTraceID(z) => /\ last.ok
                                     /\ last.str = NewTraceID(gen - 1)
                                     /\ last.str \notin {z, last.id}

\* C12 witness: the header held an invalid value, the context an invalid
\* identifier, and the header now holds a generated one.
C12_Witness ==
    /\ last.op = "SetTraceHeader"
    /\ last.id = "abc-123-invalid"
    /\ TraceIDFromContext(ctxs, last.ctx) = "id"
    /\ last.ok
    /\ isValidTraceID(last.str)

---------------------------------------------------------------------------
(* Properties of attachment with any identifier.                           *)

\* C13: whatever id is given to ContextWithTraceID or WithTraceID (empty,
\* invalid or valid), the identifier the returned context holds under the
\* package's key is valid, and it is id itself whenever id is valid.
C13_AttachedIDValid ==
    last.op \in {"ContextWithTraceID", "WithTraceID"} =>
        LET held == Value(ctxs, last.new, traceIDContextKey)
        IN  /\ held # <<>>
            /\ isValidTraceID(held[1])
            /\ isValidTraceID(last.id) => held[1] = last.id

---------------------------------------------------------------------------
(* Properties of the outbound transport's result.                          *)

\* C14: Transport.RoundTrip calls one wrapped sender, the configured
\* RoundTripper or http.DefaultTransport when none is configured, and
\* returns the response and the error that sender returned, unchanged,
\* whether the request had a trace header or not; it returns no error when
\* the sender returned none.
C14_ResultPropagated ==
    \A i \in DOMAIN sent :
        LET s == sent[i]
        IN  /\ s.rt = IF s.t = "nil" THEN "http.DefaultTransport" ELSE s.t
            /\ i \in Waiting => s.ret = InFlight
            /\ i \notin Waiting =>
                   /\ s.reply \in Replies
                   /\ s.ret.resp = s.reply.resp
                   /\ s.ret.err = s.reply.err
                   /\ s.reply.err = "nil" => s.ret.err = "nil"

\* C14 witness: the default transport failed on a request that had no trace
\* header, and RoundTrip returned that failure.
C14_Witness ==
    \E i \in DOMAIN sent :
        /\ sent[i].t = "nil"
        /\ sent[i].had = ""
        /\ sent[i].reply.err = "connection refused"
        /\ sent[i].ret = [resp |-> "nil", err |-> "connection refused"]

---------------------------------------------------------------------------
(* Properties of a chain of services.                                      *)

\* The identifier the first service received, and the identifier of the
\* chain: the one received, or the one the first middleware generated.
FirstHeader == Get(hdrs[reqs[1].hdr], TraceIDHeader)
ChainID == IF FirstHeader # "" \/ served = <<>> THEN FirstHeader
           ELSE Get(served[1].w, TraceIDHeader)

\* C15: when the first service of a chain receives a valid identifier X,
\* or no trace header, and every handler sends its outbound requests
\* through Transport with its own context and no explicit trace header,
\* then at every hop the identifier in the handler's context, on the
\* response header, on every outbound request and on the header the next
\* service receives is the same: X, or the one generated at the first hop.
C15_OneIDThreadsChain ==
    (FirstHeader = "" \/ isValidTraceID(FirstHeader)) =>
        /\ \A k \in DOMAIN served :
               /\ Get(served[k].w, TraceIDHeader) = ChainID
               /\ TraceIDFromContext(ctxs, served[k].ctx) = ChainID
               /\ isValidTraceID(ChainID)
               /\ k > 1 => served[k].in = ChainID /\ ~served[k].generated
        /\ \A i \in DOMAIN sent :
               /\ Get(sent[i].header, TraceIDHeader) = ChainID
               /\ ~sent[i].generated
               /\ sent[i].to # 0 =>
                      Get(hdrs[reqs[sent[i].to].hdr], TraceIDHeader) = ChainID
        /\ FirstHeader = "" /\ served # <<>> =>
               ChainID = NewTraceID(0) /\ gen = 1
        /\ FirstHeader # "" => gen = 0

\* C15 witness: the first service received no header; its handler called a
\* second service, whose handler called a third; the third handler's
\* context holds the identifier generated at the first hop.  The second
\* handler has its response from the third, the first is still waiting.
C15_Witness ==
    /\ FirstHeader = ""
    /\ Len(served) >= 3
    /\ \E a, b \in DOMAIN sent :
           /\ sent[a].from = 1 /\ sent[a].to = 2 /\ a \in Waiting
           /\ sent[b].from = 2 /\ sent[b].to = 3 /\ sent[b].ret.resp = "200 OK"
    /\ TraceIDFromContext(ctxs, served[3].ctx) = NewTraceID(0)
    /\ Get(served[3].w, TraceIDHeader) = NewTraceID(0)

=============================================================================
